---- MODULE Spec2Model ----
(***************************************************************************)
(* The packet framing and message-envelope layer of syncbox               *)
(* (src/logger.go, the protocol part starting at line 118): the Packet    *)
(* record and its accessors, Serialize / Deserialize, and the JSON        *)
(* encoding of Request and Response.                                      *)
(*                                                                         *)
(* Bytes are the integers 0..255.  TLC's integers are 32 bits wide, so     *)
(* the width of the address word is scaled: Uint32Bytes stands for the 4   *)
(* bytes of Go's uint32 and PacketAddrSize for the 4 bytes of the address  *)
(* field, and PacketDataSize for the 1024 bytes of the data block.  Every  *)
(* formula below is stated in terms of these names, never of their values. *)
(***************************************************************************)
EXTENDS Integers, Sequences, FiniteSets, TLC

\* ------------------------------------------------------------------ sizes

ByteBase == 256

\* bytes of the word intToBinary writes (uint32: 4 in the source)
Uint32Bytes == 2

\* src: PacketAddrSize = 4
PacketAddrSize == 2

\* src: PacketDataSize = 1024
PacketDataSize == 2

\* src: PacketTotalSize = 1032 = 2 * 4 + 1024
PacketTotalSize == 2 * PacketAddrSize + PacketDataSize

\* longest payload handed to Serialize
MaxLen == 5

\* longest packet sequence handed to Deserialize
MaxPackets == 2

MathMaxInt32 == 2147483647

MathMaxInt16 == 32767

RECURSIVE Pow(_, _)
Pow(b, n) == IF n = 0 THEN 1 ELSE b * Pow(b, n - 1)

\* one more than the largest value of the uint32 word
Uint32Limit == Pow(ByteBase, Uint32Bytes)

\* one more than the largest value the address field can hold
AddrLimit == Pow(ByteBase, PacketAddrSize)

NoError == "nil"

ErrorExceedsAddrLength == "ErrorExceedsAddrLength"

ErrUnexpectedEOF == "unexpected EOF"

NoPacket == [none |-> TRUE]

\* ---------------------------------------------------------------- helpers

\* Go's zero value of [n]byte
Zeros(n) == [i \in 1..n |-> 0]

\* Go's copy(dst, src): the first min(len(dst), len(src)) elements
Copy(dst, src) == [i \in 1..Len(dst) |-> IF i <= Len(src) THEN src[i] ELSE dst[i]]

\* Go's s[lo:hi] (0-based, hi exclusive)
Slice(s, lo, hi) == SubSeq(s, lo + 1, hi)

\* Go's uint32(n) of an int: the low bits, also of a negative n
Uint32(n) == n % Uint32Limit

\* ----------------------------------------------------------------- Packet

\* a little-endian word of n bytes
RECURSIVE LittleEndian(_, _)
LittleEndian(num, n) ==
    IF n = 0 THEN <<>> ELSE <<num % ByteBase>> \o LittleEndian(num \div ByteBase, n - 1)

\* a big-endian word of n bytes
RECURSIVE BigEndian(_, _)
BigEndian(num, n) ==
    IF n = 0 THEN <<>> ELSE BigEndian(num \div ByteBase, n - 1) \o <<num % ByteBase>>

intToBinaryBigEndian(num) == [bytes |-> BigEndian(num, Uint32Bytes), err |-> NoError]

\* binary.Write(buf, binary.LittleEndian, num) of a uint32 never fails
intToBinary(num) == [bytes |-> LittleEndian(num, Uint32Bytes), err |-> NoError]

RECURSIVE LittleEndianValue(_)
LittleEndianValue(bin) ==
    IF bin = <<>> THEN 0 ELSE Head(bin) + ByteBase * LittleEndianValue(Tail(bin))

\* binary.Read of a uint32: fails when fewer than its bytes are there
binaryToInt(bin) ==
    IF Len(bin) < Uint32Bytes
    THEN [num |-> MathMaxInt32, err |-> ErrUnexpectedEOF]
    ELSE [num |-> LittleEndianValue(SubSeq(bin, 1, Uint32Bytes)), err |-> NoError]

\* the body SetSize and SetSequence share: the new field and the error
SetAddr(field, value) ==
    LET b == intToBinary(Uint32(value))
    IN  IF b.err # NoError THEN [field |-> field, err |-> b.err]
        ELSE IF Len(b.bytes) > PacketAddrSize
             THEN [field |-> field, err |-> ErrorExceedsAddrLength]
             ELSE [field |-> Copy(field, b.bytes), err |-> NoError]

SetSize(packet, size) ==
    LET r == SetAddr(packet.Size, size)
    IN  [packet |-> [packet EXCEPT !.Size = r.field], err |-> r.err]

SetSequence(packet, sequence) ==
    LET r == SetAddr(packet.Sequence, sequence)
    IN  [packet |-> [packet EXCEPT !.Sequence = r.field], err |-> r.err]

GetAddr(field) ==
    LET r == binaryToInt(field)
    IN  IF r.err # NoError THEN [val |-> -MathMaxInt16, err |-> r.err]
        ELSE [val |-> r.num, err |-> NoError]

GetSize(packet) == GetAddr(packet.Size)

GetSequence(packet) == GetAddr(packet.Sequence)

\* a constructor that takes its two numbers in the other order
NewPacketSwapped(size, sequence, data) ==
    LET p0 == [Size |-> Zeros(PacketAddrSize), Sequence |-> Zeros(PacketAddrSize),
               Data |-> data]
        r1 == SetSize(p0, sequence)
        r2 == SetSequence(r1.packet, size)
    IN  IF r1.err # NoError THEN [packet |-> NoPacket, err |-> r1.err]
        ELSE IF r2.err # NoError THEN [packet |-> NoPacket, err |-> r2.err]
        ELSE [packet |-> r2.packet, err |-> NoError]

NewPacket(size, sequence, data) ==
    LET p0 == [Size |-> Zeros(PacketAddrSize), Sequence |-> Zeros(PacketAddrSize),
               Data |-> data]
        r1 == SetSize(p0, size)
        r2 == SetSequence(r1.packet, sequence)
    IN  IF r1.err # NoError THEN [packet |-> NoPacket, err |-> r1.err]
        ELSE IF r2.err # NoError THEN [packet |-> NoPacket, err |-> r2.err]
        ELSE [packet |-> r2.packet, err |-> NoError]

\* a record that puts Sequence before Size
ToBytesSwapped(packet) == packet.Sequence \o packet.Size \o packet.Data

ToBytes(packet) ==
    LET b0 == Zeros(PacketTotalSize)
        b1 == Copy(Slice(b0, 0, PacketAddrSize), packet.Size)
        b2 == Copy(Slice(b0, PacketAddrSize, 2 * PacketAddrSize), packet.Sequence)
        b3 == Copy(Slice(b0, 2 * PacketAddrSize, PacketTotalSize), packet.Data)
    IN  b1 \o b2 \o b3

\* a reconstruction that takes the data block from where Sequence starts
RebornPacketShifted(data) ==
    [Size |-> Copy(Zeros(PacketAddrSize), Slice(data, 0, PacketAddrSize)),
     Sequence |-> Copy(Zeros(PacketAddrSize), Slice(data, PacketAddrSize, 2 * PacketAddrSize)),
     Data |-> Copy(Zeros(PacketDataSize), Slice(data, PacketAddrSize, PacketTotalSize))]

RebornPacket(data) ==
    [Size |-> Copy(Zeros(PacketAddrSize), Slice(data, 0, PacketAddrSize)),
     Sequence |-> Copy(Zeros(PacketAddrSize), Slice(data, PacketAddrSize, 2 * PacketAddrSize)),
     Data |-> Copy(Zeros(PacketDataSize), Slice(data, 2 * PacketAddrSize, PacketTotalSize))]

\* ------------------------------------------------------ Stream Serializer

\* the count without the rounding up
PacketCountFloor(n) == n \div PacketDataSize

\* int(math.Ceil(float64(len(data)) / PacketDataSize)), exact below 2^53
PacketCount(n) == IF n % PacketDataSize = 0 THEN n \div PacketDataSize
                  ELSE n \div PacketDataSize + 1

\* the payload block of packet `sequence` of `size`: zero-padded when short
Payload(data, size, sequence) ==
    IF sequence = size - 1
    THEN Copy(Zeros(PacketDataSize), Slice(data, sequence * PacketDataSize, Len(data)))
    ELSE Copy(Zeros(PacketDataSize),
              Slice(data, sequence * PacketDataSize, (sequence + 1) * PacketDataSize))

RECURSIVE SerializeFrom(_, _, _, _)
SerializeFrom(data, size, sequence, packets) ==
    IF sequence >= size THEN [packets |-> packets, err |-> NoError]
    ELSE LET r == NewPacket(size, sequence, Payload(data, size, sequence))
         IN  IF r.err # NoError THEN [packets |-> <<>>, err |-> r.err]
             ELSE SerializeFrom(data, size, sequence + 1, Append(packets, r.packet))

Serialize(data) == SerializeFrom(data, PacketCount(Len(data)), 0, <<>>)

\* a reassembly that puts each block at the offset its Sequence field names
DeserializeBySequence(packets) ==
    LET n == Len(packets)
        At(k) == {i \in 1..n : GetSequence(packets[i]).val = k}
        Block(k) == IF At(k) = {} THEN Zeros(PacketDataSize)
                    ELSE packets[CHOOSE i \in At(k) : \A j \in At(k) : i >= j].Data
    IN  [o \in 1..(n * PacketDataSize) |->
            Block((o - 1) \div PacketDataSize)[((o - 1) % PacketDataSize) + 1]]

\* a reassembly that drops the zero bytes at the end
RECURSIVE TrimZeros(_)
TrimZeros(data) ==
    IF data # <<>> /\ data[Len(data)] = 0 THEN TrimZeros(SubSeq(data, 1, Len(data) - 1))
    ELSE data

DeserializeTrimmed(packets) ==
    TrimZeros([o \in 1..(Len(packets) * PacketDataSize) |->
        packets[((o - 1) \div PacketDataSize) + 1].Data[((o - 1) % PacketDataSize) + 1]])

RECURSIVE DeserializeFrom(_, _, _, _)
DeserializeFrom(packets, k, offset, data) ==
    IF k > Len(packets) THEN data
    ELSE DeserializeFrom(packets, k + 1, offset + PacketDataSize,
            [i \in 1..Len(data) |->
                IF i > offset /\ i <= offset + PacketDataSize
                THEN packets[k].Data[i - offset] ELSE data[i]])

Deserialize(packets) ==
    DeserializeFrom(packets, 1, 0, Zeros(Len(packets) * PacketDataSize))

\* -------------------------------------------------------- Message Envelope
\*
\* ToJSON is json.Marshal of the struct and Reborn* is json.Unmarshal into it.
\* Both are modelled on bytes, as encoding/json works: a Go string is a byte
\* sequence, []byte travels as padded standard base64, and the decoder accepts
\* nothing but white space after the value.  The decoder below reads the JSON
\* that Marshal can write (an object whose members are strings, integers and
\* null, with white space anywhere between tokens) and rejects everything else.

\* Go's nil []byte and a []byte of some length
NilBytes == [isNil |-> TRUE, bytes |-> <<>>]

Bytes(b) == [isNil |-> FALSE, bytes |-> b]

ErrSyntax == "json: syntax error"

ErrType == "json: cannot unmarshal into field"

ErrBase64 == "illegal base64 data"

\* "0123456789abcdef"
HexChars == <<48, 49, 50, 51, 52, 53, 54, 55, 56, 57, 97, 98, 99, 100, 101, 102>>

\* "ABC...Zabc...z0123456789+/"
Base64Chars ==
    [i \in 1..64 |->
        IF i <= 26 THEN 64 + i
        ELSE IF i <= 52 THEN 96 + (i - 26)
        ELSE IF i <= 62 THEN 47 + (i - 52)
        ELSE IF i = 63 THEN 43 ELSE 47]

\* the rune utf8.RuneError, U+FFFD
RuneError == 65533

\* utf8.EncodeRune
EncodeRune(r) ==
    IF r < 0 \/ r > 1114111 \/ (r >= 55296 /\ r <= 57343) THEN <<239, 191, 189>>
    ELSE IF r < 128 THEN <<r>>
    ELSE IF r < 2048 THEN <<192 + (r \div 64), 128 + (r % 64)>>
    ELSE IF r < 65536
         THEN <<224 + (r \div 4096), 128 + ((r \div 64) % 64), 128 + (r % 64)>>
    ELSE <<240 + (r \div 262144), 128 + ((r \div 4096) % 64),
           128 + ((r \div 64) % 64), 128 + (r % 64)>>

\* utf8.DecodeRune of s[i:] (i is 1-based): the rune and the bytes it takes;
\* (RuneError, 1) for a byte that starts no well-formed encoding
DecodeRune(s, i) ==
    LET b0 == s[i]
        left == Len(s) - i + 1
        bad == [rune |-> RuneError, size |-> 1]
        size == IF b0 < 128 THEN 1
                ELSE IF b0 >= 194 /\ b0 <= 223 THEN 2
                ELSE IF b0 >= 224 /\ b0 <= 239 THEN 3
                ELSE IF b0 >= 240 /\ b0 <= 244 THEN 4
                ELSE 0
        lo == IF b0 = 224 THEN 160 ELSE IF b0 = 240 THEN 144 ELSE 128
        hi == IF b0 = 237 THEN 159 ELSE IF b0 = 244 THEN 143 ELSE 191
        Cont(k) == s[i + k] >= 128 /\ s[i + k] <= 191
    IN  IF size = 0 \/ left < size THEN bad
        ELSE IF size = 1 THEN [rune |-> b0, size |-> 1]
        ELSE IF s[i + 1] < lo \/ s[i + 1] > hi THEN bad
        ELSE IF size = 2
             THEN [rune |-> (b0 - 192) * 64 + (s[i + 1] - 128), size |-> 2]
        ELSE IF ~Cont(2) THEN bad
        ELSE IF size = 3
             THEN [rune |-> (b0 - 224) * 4096 + (s[i + 1] - 128) * 64 + (s[i + 2] - 128),
                   size |-> 3]
        ELSE IF ~Cont(3) THEN bad
        ELSE [rune |-> (b0 - 240) * 262144 + (s[i + 1] - 128) * 4096
                        + (s[i + 2] - 128) * 64 + (s[i + 3] - 128),
              size |-> 4]

\* the bytes < 0x80 that appendString copies as they are (htmlSafeSet):
\* printable, and none of  "  &  <  >  \
HtmlSafe(b) == b >= 32 /\ b < 128 /\ b \notin {34, 38, 60, 62, 92}

\* \u00XX
EscapeU00(b) == <<92, 117, 48, 48, HexChars[(b \div 16) + 1], HexChars[(b % 16) + 1]>>

\* what appendString writes for the character at s[i:], and the bytes of s
\* it stands for (escapeHTML on)
AppendChar(s, i) ==
    LET b == s[i]
        d == DecodeRune(s, i)
    IN  IF b < 128
        THEN [size |-> 1,
              out |-> IF HtmlSafe(b) THEN <<b>>
                      ELSE IF b = 92 \/ b = 34 THEN <<92, b>>
                      ELSE IF b = 8 THEN <<92, 98>>
                      ELSE IF b = 12 THEN <<92, 102>>
                      ELSE IF b = 10 THEN <<92, 110>>
                      ELSE IF b = 13 THEN <<92, 114>>
                      ELSE IF b = 9 THEN <<92, 116>>
                      ELSE EscapeU00(b)]
        ELSE IF d.rune = RuneError /\ d.size = 1
        THEN [size |-> 1, out |-> <<92, 117, 102, 102, 102, 100>>]
        ELSE IF d.rune = 8232 \/ d.rune = 8233
        THEN [size |-> d.size,
              out |-> <<92, 117, 50, 48, 50, HexChars[(d.rune % 16) + 1]>>]
        ELSE [size |-> d.size, out |-> SubSeq(s, i, i + d.size - 1)]

\* encoding/json appendString, without the quotes
RECURSIVE AppendStringFrom(_, _)
AppendStringFrom(s, i) ==
    IF i > Len(s) THEN <<>>
    ELSE AppendChar(s, i).out \o AppendStringFrom(s, i + AppendChar(s, i).size)

\* a string written with only the quote and the backslash escaped
RECURSIVE AppendStringRawFrom(_, _)
AppendStringRawFrom(s, i) ==
    IF i > Len(s) THEN <<>>
    ELSE (IF s[i] = 34 \/ s[i] = 92 THEN <<92, s[i]>> ELSE <<s[i]>>)
         \o AppendStringRawFrom(s, i + 1)

\* a JSON string literal
EncodeString(s) == <<34>> \o AppendStringFrom(s, 1) \o <<34>>

\* base64.StdEncoding.EncodeToString
RECURSIVE Base64EncodeFrom(_, _)
Base64EncodeFrom(b, i) ==
    LET left == Len(b) - i + 1
        b0 == b[i]
        b1 == IF left >= 2 THEN b[i + 1] ELSE 0
        b2 == IF left >= 3 THEN b[i + 2] ELSE 0
        c0 == Base64Chars[(b0 \div 4) + 1]
        c1 == Base64Chars[((b0 % 4) * 16 + (b1 \div 16)) + 1]
        c2 == Base64Chars[((b1 % 16) * 4 + (b2 \div 64)) + 1]
        c3 == Base64Chars[(b2 % 64) + 1]
    IN  IF left <= 0 THEN <<>>
        ELSE IF left = 1 THEN <<c0, c1, 61, 61>>
        ELSE IF left = 2 THEN <<c0, c1, c2, 61>>
        ELSE <<c0, c1, c2, c3>> \o Base64EncodeFrom(b, i + 3)

\* a []byte written as its bytes in a JSON string, with no base64
EncodeBytesRaw(d) ==
    IF d.isNil THEN <<110, 117, 108, 108>>
    ELSE <<34>> \o AppendStringRawFrom(d.bytes, 1) \o <<34>>

\* a []byte value: null when nil, else a string of base64
EncodeBytes(d) ==
    IF d.isNil THEN <<110, 117, 108, 108>>
    ELSE <<34>> \o Base64EncodeFrom(d.bytes, 1) \o <<34>>

\* strconv.Itoa
RECURSIVE Digits(_)
Digits(n) == IF n < 10 THEN <<48 + n>> ELSE Digits(n \div 10) \o <<48 + (n % 10)>>

EncodeInt(n) == IF n < 0 THEN <<45>> \o Digits(-n) ELSE Digits(n)

\* {"Username":
KeyUsername == <<85, 115, 101, 114, 110, 97, 109, 101>>

KeyDataType == <<68, 97, 116, 97, 84, 121, 112, 101>>

KeyData == <<68, 97, 116, 97>>

KeyStatus == <<83, 116, 97, 116, 117, 115>>

KeyMessage == <<77, 101, 115, 115, 97, 103, 101>>

Member(key, value) == <<34>> \o key \o <<34, 58>> \o value

\* json.Marshal(req): the fields in declaration order, no white space
RequestToJSON(req) ==
    [text |-> <<123>> \o Member(KeyUsername, EncodeString(req.Username)) \o <<44>>
                      \o Member(KeyDataType, EncodeString(req.DataType)) \o <<44>>
                      \o Member(KeyData, EncodeBytes(req.Data)) \o <<125>>,
     err |-> NoError]

ResponseToJSON(res) ==
    [text |-> <<123>> \o Member(KeyStatus, EncodeInt(res.Status)) \o <<44>>
                      \o Member(KeyMessage, EncodeString(res.Message)) \o <<44>>
                      \o Member(KeyData, EncodeBytes(res.Data)) \o <<125>>,
     err |-> NoError]

\* ---- decoding

IsSpace(c) == c \in {32, 9, 13, 10}

RECURSIVE SkipSpace(_, _)
SkipSpace(t, i) == IF i <= Len(t) /\ IsSpace(t[i]) THEN SkipSpace(t, i + 1) ELSE i

HexVal(c) == IF c >= 48 /\ c <= 57 THEN c - 48
             ELSE IF c >= 97 /\ c <= 102 THEN c - 87
             ELSE IF c >= 65 /\ c <= 70 THEN c - 55
             ELSE -1

\* getu4: the rune of \uXXXX at t[i:], or -1
GetU4(t, i) ==
    IF i + 5 > Len(t) \/ t[i] # 92 \/ t[i + 1] # 117 THEN -1
    ELSE IF \E k \in 2..5 : HexVal(t[i + k]) < 0 THEN -1
    ELSE HexVal(t[i + 2]) * 4096 + HexVal(t[i + 3]) * 256
         + HexVal(t[i + 4]) * 16 + HexVal(t[i + 5])

IsSurrogate(r) == r >= 55296 /\ r < 57344

\* utf16.DecodeRune
DecodeSurrogates(r1, r2) ==
    IF r1 >= 55296 /\ r1 < 56320 /\ r2 >= 56320 /\ r2 < 57344
    THEN (r1 - 55296) * 1024 + (r2 - 56320) + 65536
    ELSE RuneError

NoParse == [ok |-> FALSE, next |-> 0]

\* one character of a string literal at t[i:]: the bytes of the text it takes
\* (size) and the bytes it stands for (out); ok is FALSE where the scanner
\* stops with an error
UnquoteChar(t, i) ==
    LET c == t[i]
        e == t[i + 1]
        rr == GetU4(t, i)
        rr1 == GetU4(t, i + 6)
        d == DecodeRune(t, i)
        bad == [ok |-> FALSE, size |-> 0, out |-> <<>>]
    IN  IF c < 32 THEN bad
        ELSE IF c = 92
        THEN IF i + 1 > Len(t) THEN bad
             ELSE IF e \in {34, 92, 47} THEN [ok |-> TRUE, size |-> 2, out |-> <<e>>]
             ELSE IF e = 98 THEN [ok |-> TRUE, size |-> 2, out |-> <<8>>]
             ELSE IF e = 102 THEN [ok |-> TRUE, size |-> 2, out |-> <<12>>]
             ELSE IF e = 110 THEN [ok |-> TRUE, size |-> 2, out |-> <<10>>]
             ELSE IF e = 114 THEN [ok |-> TRUE, size |-> 2, out |-> <<13>>]
             ELSE IF e = 116 THEN [ok |-> TRUE, size |-> 2, out |-> <<9>>]
             ELSE IF e = 117
             THEN IF rr < 0 THEN bad
                  ELSE IF ~IsSurrogate(rr)
                  THEN [ok |-> TRUE, size |-> 6, out |-> EncodeRune(rr)]
                  ELSE IF DecodeSurrogates(rr, rr1) # RuneError
                  THEN [ok |-> TRUE, size |-> 12,
                        out |-> EncodeRune(DecodeSurrogates(rr, rr1))]
                  ELSE [ok |-> TRUE, size |-> 6, out |-> EncodeRune(RuneError)]
             ELSE bad
        ELSE IF c < 128 THEN [ok |-> TRUE, size |-> 1, out |-> <<c>>]
        ELSE [ok |-> TRUE, size |-> d.size, out |-> EncodeRune(d.rune)]

\* a string literal whose opening quote is before t[i]: the bytes it stands
\* for (unquote) and the place after its closing quote
RECURSIVE UnquoteFrom(_, _, _)
UnquoteFrom(t, i, acc) ==
    IF i > Len(t) THEN NoParse
    ELSE IF t[i] = 34 THEN [ok |-> TRUE, bytes |-> acc, next |-> i + 1]
    ELSE IF ~UnquoteChar(t, i).ok THEN NoParse
    ELSE UnquoteFrom(t, i + UnquoteChar(t, i).size, acc \o UnquoteChar(t, i).out)

IsDigit(c) == c >= 48 /\ c <= 57

RECURSIVE DigitsEnd(_, _)
DigitsEnd(t, i) == IF i <= Len(t) /\ IsDigit(t[i]) THEN DigitsEnd(t, i + 1) ELSE i

RECURSIVE DigitsValue(_, _, _)
DigitsValue(t, i, j) ==
    IF j <= i THEN 0 ELSE DigitsValue(t, i, j - 1) * 10 + (t[j - 1] - 48)

\* an integer literal at t[i:]: no leading zero, no fraction, no exponent
ParseInt(t, i) ==
    LET neg == i <= Len(t) /\ t[i] = 45
        d == IF neg THEN i + 1 ELSE i
        e == DigitsEnd(t, d)
    IN  IF e = d THEN NoParse
        ELSE IF t[d] = 48 /\ e > d + 1 THEN NoParse
        ELSE IF e <= Len(t) /\ t[e] \in {46, 101, 69} THEN NoParse
        ELSE [ok |-> TRUE, next |-> e,
              value |-> [kind |-> "number",
                         num |-> IF neg THEN -DigitsValue(t, d, e) ELSE DigitsValue(t, d, e)]]

\* a member's value at t[i:]: a string, null, or an integer
ParseValue(t, i) ==
    IF i > Len(t) THEN NoParse
    ELSE IF t[i] = 34
    THEN LET u == UnquoteFrom(t, i + 1, <<>>)
         IN  IF u.ok THEN [ok |-> TRUE, next |-> u.next,
                           value |-> [kind |-> "string", bytes |-> u.bytes]]
             ELSE NoParse
    ELSE IF t[i] = 110
    THEN IF i + 3 <= Len(t) /\ SubSeq(t, i, i + 3) = <<110, 117, 108, 108>>
         THEN [ok |-> TRUE, next |-> i + 4, value |-> [kind |-> "null"]]
         ELSE NoParse
    ELSE IF t[i] = 45 \/ IsDigit(t[i]) THEN ParseInt(t, i)
    ELSE NoParse

\* the value after the key k of a member, and the place of the comma or
\* brace after it
ParseMemberValue(t, k, v) ==
    IF ~v.ok \/ SkipSpace(t, v.next) > Len(t) THEN NoParse
    ELSE [ok |-> TRUE, next |-> SkipSpace(t, v.next),
          member |-> [key |-> k.bytes, value |-> v.value]]

ParseMemberKey(t, k) ==
    IF ~k.ok \/ SkipSpace(t, k.next) > Len(t) \/ t[SkipSpace(t, k.next)] # 58
    THEN NoParse
    ELSE ParseMemberValue(t, k, ParseValue(t, SkipSpace(t, SkipSpace(t, k.next) + 1)))

\* the member at t[i:], where its key starts
ParseMember(t, i) ==
    IF i > Len(t) \/ t[i] # 34 THEN NoParse
    ELSE ParseMemberKey(t, UnquoteFrom(t, i + 1, <<>>))

\* the members of an object from t[i:], where a member's key starts
RECURSIVE ParseMembersFrom(_, _, _)
ParseMembersAfter(t, acc, m) ==
    IF ~m.ok THEN NoParse
    ELSE IF t[m.next] = 125
    THEN [ok |-> TRUE, next |-> m.next + 1, members |-> Append(acc, m.member)]
    ELSE IF t[m.next] = 44
    THEN ParseMembersFrom(t, SkipSpace(t, m.next + 1), Append(acc, m.member))
    ELSE NoParse

ParseMembersFrom(t, i, acc) == ParseMembersAfter(t, acc, ParseMember(t, i))

\* the value the text starts with, from its first byte t[i]: an object, or null
ParseTop(t, i) ==
    IF i > Len(t) THEN NoParse
    ELSE IF t[i] = 123
    THEN IF SkipSpace(t, i + 1) <= Len(t) /\ t[SkipSpace(t, i + 1)] = 125
         THEN [ok |-> TRUE, next |-> SkipSpace(t, i + 1) + 1, members |-> <<>>]
         ELSE ParseMembersFrom(t, SkipSpace(t, i + 1), <<>>)
    ELSE IF i + 3 <= Len(t) /\ SubSeq(t, i, i + 3) = <<110, 117, 108, 108>>
    THEN [ok |-> TRUE, next |-> i + 4, members |-> <<>>]
    ELSE NoParse

\* checkValid: nothing but white space may follow the value
ParseEnd(t, top) ==
    IF top.ok /\ SkipSpace(t, top.next) = Len(t) + 1 THEN top ELSE NoParse

\* the whole text: white space, one object (or null), white space, the end
ParseObject(t) == ParseEnd(t, ParseTop(t, SkipSpace(t, 1)))

Base64Index(c) ==
    IF c >= 65 /\ c <= 90 THEN c - 65
    ELSE IF c >= 97 /\ c <= 122 THEN c - 71
    ELSE IF c >= 48 /\ c <= 57 THEN c + 4
    ELSE IF c = 43 THEN 62
    ELSE IF c = 47 THEN 63
    ELSE -1

\* base64.StdEncoding.DecodeString: quanta of four, padded at the end
RECURSIVE Base64DecodeFrom(_, _, _)
Base64DecodeFrom(s, i, acc) ==
    IF i > Len(s) THEN [ok |-> TRUE, bytes |-> acc]
    ELSE IF i + 3 > Len(s) THEN [ok |-> FALSE, bytes |-> <<>>]
    ELSE LET v0 == Base64Index(s[i])
             v1 == Base64Index(s[i + 1])
             v2 == Base64Index(s[i + 2])
             v3 == Base64Index(s[i + 3])
             last == i + 3 = Len(s)
             y0 == v0 * 4 + (v1 \div 16)
             y1 == (v1 % 16) * 16 + (v2 \div 4)
             y2 == (v2 % 4) * 64 + v3
         IN  IF v0 < 0 \/ v1 < 0 THEN [ok |-> FALSE, bytes |-> <<>>]
             ELSE IF s[i + 2] = 61
             THEN IF s[i + 3] = 61 /\ last THEN [ok |-> TRUE, bytes |-> acc \o <<y0>>]
                  ELSE [ok |-> FALSE, bytes |-> <<>>]
             ELSE IF v2 < 0 THEN [ok |-> FALSE, bytes |-> <<>>]
             ELSE IF s[i + 3] = 61
             THEN IF last THEN [ok |-> TRUE, bytes |-> acc \o <<y0, y1>>]
                  ELSE [ok |-> FALSE, bytes |-> <<>>]
             ELSE IF v3 < 0 THEN [ok |-> FALSE, bytes |-> <<>>]
             ELSE Base64DecodeFrom(s, i + 4, acc \o <<y0, y1, y2>>)

\* ASCII case folding, as the decoder matches a key to a field
Lower(c) == IF c >= 65 /\ c <= 90 THEN c + 32 ELSE c

FoldEq(a, b) == Len(a) = Len(b) /\ \A i \in 1..Len(a) : Lower(a[i]) = Lower(b[i])

\* one member stored into a string field
SetString(cur, v) ==
    IF v.kind = "string" THEN [val |-> v.bytes, err |-> NoError]
    ELSE IF v.kind = "null" THEN [val |-> cur, err |-> NoError]
    ELSE [val |-> cur, err |-> ErrType]

\* one member stored into an int field
SetInt(cur, v) ==
    IF v.kind = "number" THEN [val |-> v.num, err |-> NoError]
    ELSE IF v.kind = "null" THEN [val |-> cur, err |-> NoError]
    ELSE [val |-> cur, err |-> ErrType]

\* one member stored into a []byte field
SetBytes(cur, v) ==
    IF v.kind = "string"
    THEN LET d == Base64DecodeFrom(v.bytes, 1, <<>>)
         IN  IF d.ok THEN [val |-> Bytes(d.bytes), err |-> NoError]
             ELSE [val |-> cur, err |-> ErrBase64]
    ELSE IF v.kind = "null" THEN [val |-> NilBytes, err |-> NoError]
    ELSE [val |-> cur, err |-> ErrType]

FirstError(e1, e2) == IF e1 # NoError THEN e1 ELSE e2

ZeroRequest == [Username |-> <<>>, DataType |-> <<>>, Data |-> NilBytes]

ZeroResponse == [Status |-> 0, Message |-> <<>>, Data |-> NilBytes]

\* one member stored into the Request: the struct after it and the error
StoreInRequest(req, m) ==
    IF FoldEq(m.key, KeyUsername)
    THEN [value |-> [req EXCEPT !.Username = SetString(req.Username, m.value).val],
          err |-> SetString(req.Username, m.value).err]
    ELSE IF FoldEq(m.key, KeyDataType)
    THEN [value |-> [req EXCEPT !.DataType = SetString(req.DataType, m.value).val],
          err |-> SetString(req.DataType, m.value).err]
    ELSE IF FoldEq(m.key, KeyData)
    THEN [value |-> [req EXCEPT !.Data = SetBytes(req.Data, m.value).val],
          err |-> SetBytes(req.Data, m.value).err]
    ELSE [value |-> req, err |-> NoError]

StoreInResponse(res, m) ==
    IF FoldEq(m.key, KeyStatus)
    THEN [value |-> [res EXCEPT !.Status = SetInt(res.Status, m.value).val],
          err |-> SetInt(res.Status, m.value).err]
    ELSE IF FoldEq(m.key, KeyMessage)
    THEN [value |-> [res EXCEPT !.Message = SetString(res.Message, m.value).val],
          err |-> SetString(res.Message, m.value).err]
    ELSE IF FoldEq(m.key, KeyData)
    THEN [value |-> [res EXCEPT !.Data = SetBytes(res.Data, m.value).val],
          err |-> SetBytes(res.Data, m.value).err]
    ELSE [value |-> res, err |-> NoError]

\* the members stored in order; the first error is the one returned
RECURSIVE FillRequest(_, _, _, _)
FillRequestWith(members, k, e, stored) ==
    FillRequest(members, k + 1, stored.value, FirstError(e, stored.err))

FillRequest(members, k, req, e) ==
    IF k > Len(members) THEN [value |-> req, err |-> e]
    ELSE FillRequestWith(members, k, e, StoreInRequest(req, members[k]))

RECURSIVE FillResponse(_, _, _, _)
FillResponseWith(members, k, e, stored) ==
    FillResponse(members, k + 1, stored.value, FirstError(e, stored.err))

FillResponse(members, k, res, e) ==
    IF k > Len(members) THEN [value |-> res, err |-> e]
    ELSE FillResponseWith(members, k, e, StoreInResponse(res, members[k]))

NoEnvelope == [none |-> TRUE]

\* what Reborn* returns: nil and the error, or the value and nil
ValueOrError(f) ==
    IF f.err # NoError THEN [value |-> NoEnvelope, err |-> f.err]
    ELSE [value |-> f.value, err |-> NoError]

UnmarshalRequest(p) ==
    IF p.ok THEN FillRequest(p.members, 1, ZeroRequest, NoError)
    ELSE [value |-> ZeroRequest, err |-> ErrSyntax]

UnmarshalResponse(p) ==
    IF p.ok THEN FillResponse(p.members, 1, ZeroResponse, NoError)
    ELSE [value |-> ZeroResponse, err |-> ErrSyntax]

\* json.Unmarshal([]byte(jsonStr), &restoredReq)
RebornRequest(jsonStr) == ValueOrError(UnmarshalRequest(ParseObject(jsonStr)))

RebornResponse(jsonStr) == ValueOrError(UnmarshalResponse(ParseObject(jsonStr)))

\* ------------------------------------------------------------------ state

VARIABLES
    op,       \* the operation that ran last
    arg,      \* what it was called with
    ret,      \* what it returned
    err,      \* the error it returned
    packet,   \* the Packet a caller holds (Set* change it in place)
    packets,  \* the []Packet a caller holds
    source,   \* the payload or envelope a round trip started from
    stream,   \* the bytes written to the connection and not yet read
    received, \* the packets the receiving side has rebuilt
    threads   \* each goroutine's call in progress and its last result

vars == <<op, arg, ret, err, packet, packets, source, stream, received, threads>>

\* what the calls of one caller leave alone
others == <<stream, received, threads>>

None == <<>>

\* --------------------------------------------------------------- inputs

\* sizes and sequences a caller passes: in range, at and past both ends
Ints == {-1, 0, 1, 2, 3, ByteBase, AddrLimit - 1, AddrLimit, AddrLimit + 1}

InRange(n) == 0 <= n /\ n < AddrLimit

DataBytes == {0, 7}

AddrBytes == {0, 1}

SeqsOfLen(S, n) == [1..n -> S]

SeqsUpTo(S, n) == UNION {SeqsOfLen(S, k) : k \in 0..n}

Blocks == SeqsOfLen(DataBytes, PacketDataSize)

\* records read off a stream: any address bytes, any data
Buffers == {a \o d : a \in SeqsOfLen(AddrBytes, 2 * PacketAddrSize), d \in Blocks}

Payloads == SeqsUpTo(DataBytes, MaxLen)

\* packets as a caller of Deserialize may hold them: fields of any value
AnyPackets ==
    [Size : {LittleEndian(0, PacketAddrSize), LittleEndian(2, PacketAddrSize)},
     Sequence : {LittleEndian(0, PacketAddrSize), LittleEndian(1, PacketAddrSize)},
     Data : Blocks]

PacketSeqs == SeqsUpTo(AnyPackets, MaxPackets)

\* -------------------------------------------------------------- actions

Init ==
    /\ op = "init"
    /\ arg = None
    /\ ret = None
    /\ err = NoError
    /\ packet = NoPacket
    /\ packets = <<>>
    /\ source = [from |-> "none"]
    /\ stream = <<>>
    /\ received = <<>>
    /\ threads = <<>>

CallNewPacket ==
    /\ op = "init"
    /\ \E size \in Ints, sequence \in Ints, data \in Blocks :
          LET r == NewPacket(size, sequence, data)
          IN  /\ op' = "NewPacket"
              /\ arg' = [size |-> size, sequence |-> sequence, data |-> data]
              /\ packet' = r.packet
              /\ err' = r.err
              /\ ret' = None
    /\ UNCHANGED <<packets, source, others>>

CallRebornPacket ==
    /\ op = "init"
    /\ \E data \in Buffers :
          /\ op' = "RebornPacket"
          /\ arg' = data
          /\ packet' = RebornPacket(data)
          /\ err' = NoError
          /\ ret' = None
    /\ UNCHANGED <<packets, source, others>>

CallSetSize ==
    /\ packet # NoPacket
    /\ \E size \in Ints :
          LET r == SetSize(packet, size)
          IN  /\ op' = "SetSize"
              /\ arg' = [size |-> size, before |-> packet]
              /\ packet' = r.packet
              /\ err' = r.err
              /\ ret' = None
    /\ UNCHANGED <<packets, source, others>>

CallSetSequence ==
    /\ packet # NoPacket
    /\ \E sequence \in Ints :
          LET r == SetSequence(packet, sequence)
          IN  /\ op' = "SetSequence"
              /\ arg' = [sequence |-> sequence, before |-> packet]
              /\ packet' = r.packet
              /\ err' = r.err
              /\ ret' = None
    /\ UNCHANGED <<packets, source, others>>

CallGetSize ==
    /\ packet # NoPacket
    /\ op' = "GetSize"
    /\ arg' = None
    /\ ret' = GetSize(packet).val
    /\ err' = GetSize(packet).err
    /\ UNCHANGED <<packet, packets, source, others>>

CallGetSequence ==
    /\ packet # NoPacket
    /\ op' = "GetSequence"
    /\ arg' = None
    /\ ret' = GetSequence(packet).val
    /\ err' = GetSequence(packet).err
    /\ UNCHANGED <<packet, packets, source, others>>

CallToBytes ==
    /\ packet # NoPacket
    /\ op' = "ToBytes"
    /\ arg' = None
    /\ ret' = ToBytes(packet)
    /\ err' = NoError
    /\ UNCHANGED <<packet, packets, source, others>>

CallSerialize ==
    /\ op = "init"
    /\ \E data \in Payloads :
          LET r == Serialize(data)
          IN  /\ op' = "Serialize"
              /\ arg' = data
              /\ source' = [from |-> "Serialize", data |-> data]
              /\ packets' = r.packets
              /\ err' = r.err
              /\ ret' = None
    /\ UNCHANGED <<packet, others>>

\* Deserialize of what Serialize returned, or of packets from anywhere
CallDeserialize ==
    /\ \/ /\ op = "Serialize"
          /\ err = NoError
          /\ UNCHANGED packets
       \/ /\ op = "init"
          /\ packets' \in PacketSeqs
    /\ op' = "Deserialize"
    /\ arg' = packets'
    /\ ret' = Deserialize(packets')
    /\ err' = NoError
    /\ UNCHANGED <<packet, source, others>>

Next ==
    \/ CallRebornPacket
    \/ CallNewPacket
    \/ CallSetSize
    \/ CallSetSequence
    \/ CallGetSize
    \/ CallGetSequence
    \/ CallToBytes
    \/ CallSerialize
    \/ CallDeserialize

Spec == Init /\ [][Next]_vars

\* ------------------------------------------------------- envelope calls

\* longest Username, DataType or Message
MaxStrLen == 2

StatusOK == 200

StatusBad == 400

\* "IDENTITY"
TypeIdentity == <<73, 68, 69, 78, 84, 73, 84, 89>>

\* "DENY"
MessageDeny == <<68, 69, 78, 89>>

\* "alice"
Alice == <<97, 108, 105, 99, 101>>

\* bytes of a Go string: a letter, the delimiter ByteDelim, a quote, and the
\* two bytes of U+00E9, each of which alone is not UTF-8
StringBytes == {97, 4, 34, 195, 169}

Strings == SeqsUpTo(StringBytes, MaxStrLen) \cup {Alice, MessageDeny}

DataValues ==
    {NilBytes, Bytes(<<>>), Bytes(<<4>>), Bytes(<<0, 255>>), Bytes(<<1, 2, 3>>),
     Bytes(<<250, 4, 0, 34>>)}

Requests == [Username : Strings, DataType : {<<>>, TypeIdentity}, Data : DataValues]

Responses ==
    [Status : {StatusOK, StatusBad, 0, -1}, Message : Strings,
     Data : {NilBytes, Bytes(<<>>), Bytes(<<250, 4, 0, 34>>)}]

\* no byte of s is outside a well-formed UTF-8 encoding
RECURSIVE ValidUTF8From(_, _)
ValidUTF8From(s, i) ==
    IF i > Len(s) THEN TRUE
    ELSE LET d == DecodeRune(s, i)
         IN  IF d.rune = RuneError /\ d.size = 1 THEN FALSE
             ELSE ValidUTF8From(s, i + d.size)

ValidUTF8(s) == ValidUTF8From(s, 1)

CallRequestToJSON ==
    /\ op = "init"
    /\ \E req \in Requests :
          LET r == RequestToJSON(req)
          IN  /\ op' = "Request.ToJSON"
              /\ arg' = req
              /\ source' = [from |-> "Request", value |-> req]
              /\ ret' = r.text
              /\ err' = r.err
    /\ UNCHANGED <<packet, packets, others>>

CallRebornRequest ==
    /\ op = "Request.ToJSON"
    /\ err = NoError
    /\ op' = "RebornRequest"
    /\ arg' = ret
    /\ ret' = RebornRequest(ret).value
    /\ err' = RebornRequest(ret).err
    /\ UNCHANGED <<packet, packets, source, others>>

CallResponseToJSON ==
    /\ op = "init"
    /\ \E res \in Responses :
          LET r == ResponseToJSON(res)
          IN  /\ op' = "Response.ToJSON"
              /\ arg' = res
              /\ source' = [from |-> "Response", value |-> res]
              /\ ret' = r.text
              /\ err' = r.err
    /\ UNCHANGED <<packet, packets, others>>

CallRebornResponse ==
    /\ op = "Response.ToJSON"
    /\ err = NoError
    /\ op' = "RebornResponse"
    /\ arg' = ret
    /\ ret' = RebornResponse(ret).value
    /\ err' = RebornResponse(ret).err
    /\ UNCHANGED <<packet, packets, source, others>>

NextEnvelope ==
    \/ CallRequestToJSON
    \/ CallRebornRequest
    \/ CallResponseToJSON
    \/ CallRebornResponse

SpecEnvelope == Init /\ [][NextEnvelope]_vars

\* ------------------------------------------------------- end-to-end flow
\*
\* The sending side encodes an envelope, serializes the text and writes each
\* packet's record to the connection in sequence order; the receiving side
\* reads records of PacketTotalSize bytes, rebuilds the packets, and when it
\* holds as many as the first packet's Size says, deserializes and decodes.
\* The connection is reliable and in order: stream is a queue of bytes.

FlowStrings == SeqsUpTo({97, 195}, MaxStrLen)

FlowRequests ==
    [Username : FlowStrings, DataType : {<<>>}, Data : {NilBytes, Bytes(<<4>>)}]

FlowResponses ==
    [Status : {StatusOK}, Message : FlowStrings, Data : {NilBytes, Bytes(<<4>>)}]

EncodeRequest ==
    /\ op = "init"
    /\ \E req \in FlowRequests :
          /\ source' = [from |-> "Request", value |-> req, text |-> RequestToJSON(req).text]
          /\ ret' = RequestToJSON(req).text
          /\ err' = RequestToJSON(req).err
    /\ op' = "encoded"
    /\ UNCHANGED <<arg, packet, packets, others>>

EncodeResponse ==
    /\ op = "init"
    /\ \E res \in FlowResponses :
          /\ source' = [from |-> "Response", value |-> res, text |-> ResponseToJSON(res).text]
          /\ ret' = ResponseToJSON(res).text
          /\ err' = ResponseToJSON(res).err
    /\ op' = "encoded"
    /\ UNCHANGED <<arg, packet, packets, others>>

\* Serialize([]byte(text)); arg counts the records written so far
SerializeText ==
    /\ op = "encoded"
    /\ err = NoError
    /\ packets' = Serialize(ret).packets
    /\ err' = Serialize(ret).err
    /\ arg' = 0
    /\ op' = "sending"
    /\ UNCHANGED <<ret, packet, source, others>>

WriteRecord ==
    /\ op = "sending"
    /\ err = NoError
    /\ arg < Len(packets)
    /\ stream' = stream \o ToBytes(packets[arg + 1])
    /\ arg' = arg + 1
    /\ UNCHANGED <<op, ret, err, packet, packets, source, received, threads>>

ReadRecord ==
    /\ Len(stream) >= PacketTotalSize
    /\ received' = Append(received, RebornPacket(SubSeq(stream, 1, PacketTotalSize)))
    /\ stream' = SubSeq(stream, PacketTotalSize + 1, Len(stream))
    /\ UNCHANGED <<op, arg, ret, err, packet, packets, source, threads>>

\* the receiving side has the whole message: Deserialize; arg keeps the buffer
Reassemble ==
    /\ op = "sending"
    /\ received # <<>>
    /\ Len(received) = GetSize(received[1]).val
    /\ arg' = Deserialize(received)
    /\ op' = "reassembled"
    /\ UNCHANGED <<ret, err, packet, packets, source, others>>

\* RebornRequest(string(buffer)) or RebornResponse(string(buffer))
Decode ==
    /\ op = "reassembled"
    /\ ret' = IF source.from = "Request" THEN RebornRequest(arg).value
              ELSE RebornResponse(arg).value
    /\ err' = IF source.from = "Request" THEN RebornRequest(arg).err
              ELSE RebornResponse(arg).err
    /\ op' = "decoded"
    /\ UNCHANGED <<arg, packet, packets, source, others>>

NextFlow ==
    \/ EncodeRequest
    \/ EncodeResponse
    \/ SerializeText
    \/ WriteRecord
    \/ ReadRecord
    \/ Reassemble
    \/ Decode

SpecFlow == Init /\ [][NextFlow]_vars

\* ------------------------------------------------------ concurrent calls
\*
\* Goroutines call the operations on one shared *Packet, one shared payload
\* and one shared []Packet, each goroutine one call.  Nothing synchronizes
\* them.  A copy into or out of the packet's address fields is not atomic: it
\* is modelled a byte at a time, so that a read racing with a write may see
\* any mix the hardware can show.

NumThreads == 2

Threads == 1..NumThreads

Idle == [state |-> "idle", call |-> "none", val |-> 0, i |-> 0, buf |-> <<>>,
         result |-> None]

\* the arguments the goroutines pass to SetSize and SetSequence
SetValues == {1, ByteBase + 1}

SharedPackets ==
    {NewPacket(2, 0, [i \in 1..PacketDataSize |-> 7]).packet,
     NewPacket(ByteBase, 1, Zeros(PacketDataSize)).packet}

SharedPayload == [i \in 1..(PacketDataSize + 1) |-> 7]

InitConc ==
    /\ op = "init"
    /\ arg = None
    /\ ret = None
    /\ err = NoError
    /\ packet \in SharedPackets
    /\ source = [from |-> "shared", packet |-> packet, data |-> SharedPayload]
    /\ packets = Serialize(SharedPayload).packets
    /\ stream = <<>>
    /\ received = <<>>
    /\ threads = [t \in Threads |-> Idle]

Running(t, call) == threads[t].state = "running" /\ threads[t].call = call

Begin(t, call, val) ==
    /\ threads[t].state = "idle"
    /\ threads' = [threads EXCEPT ![t] =
                      [state |-> "running", call |-> call, val |-> val, i |-> 0,
                       buf |-> <<>>, result |-> None]]
    /\ op' = call
    /\ UNCHANGED <<arg, ret, err, packet, packets, source, stream, received>>

Finish(t, result) ==
    threads' = [threads EXCEPT ![t] =
                   [state |-> "done", call |-> threads[t].call, val |-> threads[t].val,
                    i |-> 0, buf |-> <<>>, result |-> result]]

Advance(t, buf) ==
    threads' = [threads EXCEPT ![t].i = threads[t].i + 1, ![t].buf = buf]

BeginCall(t) ==
    \/ \E v \in SetValues : Begin(t, "SetSize", v)
    \/ \E v \in SetValues : Begin(t, "SetSequence", v)
    \/ Begin(t, "GetSize", 0)
    \/ Begin(t, "GetSequence", 0)
    \/ Begin(t, "ToBytes", 0)
    \/ Begin(t, "Serialize", 0)
    \/ Begin(t, "Deserialize", 0)
    \/ \E v \in SetValues : Begin(t, "NewPacket", v)
    \/ Begin(t, "RebornPacket", 0)

\* byte i (0-based) that copy(field[:], bytes) stores: the field after it
CopyIntoField(field, bytes, i) == [field EXCEPT ![i + 1] = bytes[i + 1]]

\* SetSize / SetSequence: intToBinary, the length check, then the copy into
\* the receiver's field, a byte per step
StepSet(t) ==
    /\ Running(t, "SetSize") \/ Running(t, "SetSequence")
    /\ LET b == intToBinary(Uint32(threads[t].val))
           i == threads[t].i
       IN  IF b.err # NoError
           THEN Finish(t, [err |-> b.err]) /\ UNCHANGED packet
           ELSE IF Len(b.bytes) > PacketAddrSize
           THEN Finish(t, [err |-> ErrorExceedsAddrLength]) /\ UNCHANGED packet
           ELSE IF i < Len(b.bytes) /\ i < PacketAddrSize
           THEN /\ packet' = IF threads[t].call = "SetSize"
                             THEN [packet EXCEPT !.Size = CopyIntoField(packet.Size, b.bytes, i)]
                             ELSE [packet EXCEPT
                                      !.Sequence = CopyIntoField(packet.Sequence, b.bytes, i)]
                /\ Advance(t, <<>>)
           ELSE Finish(t, [err |-> NoError]) /\ UNCHANGED packet
    /\ UNCHANGED <<op, arg, ret, err, packets, source, stream, received>>

\* GetSize / GetSequence: binary.Read copies the field out, a byte per step,
\* and decodes what it copied
StepGet(t) ==
    /\ Running(t, "GetSize") \/ Running(t, "GetSequence")
    /\ LET field == IF threads[t].call = "GetSize" THEN packet.Size ELSE packet.Sequence
           i == threads[t].i
       IN  IF i < PacketAddrSize
           THEN Advance(t, Append(threads[t].buf, field[i + 1]))
           ELSE Finish(t, GetAddr(threads[t].buf))
    /\ UNCHANGED <<op, arg, ret, err, packet, packets, source, stream, received>>

\* a ToBytes whose copies run the other way: from the new array into the packet
ToBytesCopySwapped(p, buf, i) ==
    [packet |-> IF i < PacketAddrSize THEN [p EXCEPT !.Size[i + 1] = 0]
                ELSE IF i < 2 * PacketAddrSize
                THEN [p EXCEPT !.Sequence[i - PacketAddrSize + 1] = 0]
                ELSE [p EXCEPT !.Data = Zeros(PacketDataSize)],
     buf |-> IF i < 2 * PacketAddrSize THEN Append(buf, 0)
             ELSE buf \o Zeros(PacketDataSize)]

\* step i of ToBytes' three copies: the address bytes one at a time, then the
\* data block; the packet it leaves and the bytes copied so far
ToBytesCopy(p, buf, i) ==
    [packet |-> p,
     buf |-> IF i < PacketAddrSize THEN Append(buf, p.Size[i + 1])
             ELSE IF i < 2 * PacketAddrSize
             THEN Append(buf, p.Sequence[i - PacketAddrSize + 1])
             ELSE buf \o p.Data]

StepToBytes(t) ==
    /\ Running(t, "ToBytes")
    /\ IF threads[t].i <= 2 * PacketAddrSize
       THEN /\ packet' = ToBytesCopy(packet, threads[t].buf, threads[t].i).packet
            /\ Advance(t, ToBytesCopy(packet, threads[t].buf, threads[t].i).buf)
       ELSE Finish(t, threads[t].buf) /\ UNCHANGED packet
    /\ UNCHANGED <<op, arg, ret, err, packets, source, stream, received>>

\* Serialize reads the payload and Deserialize the packets' Data: no call
\* writes either, so each is one step
StepSerialize(t) ==
    /\ Running(t, "Serialize")
    /\ Finish(t, Serialize(source.data))
    /\ UNCHANGED <<op, arg, ret, err, packet, packets, source, stream, received>>

StepDeserialize(t) ==
    /\ Running(t, "Deserialize")
    /\ Finish(t, Deserialize(packets))
    /\ UNCHANGED <<op, arg, ret, err, packet, packets, source, stream, received>>

\* NewPacket sets the fields of a packet of its own, which no other goroutine
\* holds yet; RebornPacket gets its record by value
StepNewPacket(t) ==
    /\ Running(t, "NewPacket")
    /\ Finish(t, NewPacket(threads[t].val, 1, source.packet.Data))
    /\ UNCHANGED <<op, arg, ret, err, packet, packets, source, stream, received>>

StepRebornPacket(t) ==
    /\ Running(t, "RebornPacket")
    /\ Finish(t, RebornPacket(ToBytes(source.packet)))
    /\ UNCHANGED <<op, arg, ret, err, packet, packets, source, stream, received>>

NextConc ==
    \E t \in Threads :
        \/ BeginCall(t)
        \/ StepSet(t)
        \/ StepGet(t)
        \/ StepToBytes(t)
        \/ StepSerialize(t)
        \/ StepDeserialize(t)
        \/ StepNewPacket(t)
        \/ StepRebornPacket(t)

SpecConc == InitConc /\ [][NextConc]_vars

\* what a call returns when it runs alone on the inputs as they were shared
Alone(call, val) ==
    IF call = "SetSize" THEN [err |-> SetSize(source.packet, val).err]
    ELSE IF call = "SetSequence" THEN [err |-> SetSequence(source.packet, val).err]
    ELSE IF call = "GetSize" THEN GetSize(source.packet)
    ELSE IF call = "GetSequence" THEN GetSequence(source.packet)
    ELSE IF call = "ToBytes" THEN ToBytes(source.packet)
    ELSE IF call = "Serialize" THEN Serialize(source.data)
    ELSE IF call = "NewPacket" THEN NewPacket(val, 1, source.packet.Data)
    ELSE IF call = "RebornPacket" THEN source.packet
    ELSE Deserialize(Serialize(source.data).packets)

IsSetter(call) == call = "SetSize" \/ call = "SetSequence"

\* ------------------------------------------------------------ properties

\* C1: NewPacket, SetSize and SetSequence fail with ErrorExceedsAddrLength
\* (NewPacket returning no packet, Set* leaving the field as it was) whenever
\* the size or sequence is negative or above the largest value of the address
\* field; the value is never truncated into the field.
C1_OverflowIsRejected ==
    /\ (op = "NewPacket" /\ (~InRange(arg.size) \/ ~InRange(arg.sequence)))
          => (err = ErrorExceedsAddrLength /\ packet = NoPacket)
    /\ (op = "SetSize" /\ ~InRange(arg.size))
          => (err = ErrorExceedsAddrLength /\ packet = arg.before)
    /\ (op = "SetSequence" /\ ~InRange(arg.sequence))
          => (err = ErrorExceedsAddrLength /\ packet = arg.before)

\* C2: Serialize of a payload of length L returns, without error, exactly
\* ceil(L / PacketDataSize) packets (none for L = 0); packet i has Sequence i,
\* every packet has Size = the count, and packet i's Data is the i-th slice of
\* the payload followed by zero bytes.
C2_SerializeChunks ==
    op = "Serialize" =>
        LET L == Len(arg)
            count == Len(packets)
        IN  /\ err = NoError
            /\ count * PacketDataSize >= L
            /\ count = 0 \/ (count - 1) * PacketDataSize < L
            /\ \A i \in 0..(count - 1) :
                  /\ GetSequence(packets[i + 1]) = [val |-> i, err |-> NoError]
                  /\ GetSize(packets[i + 1]) = [val |-> count, err |-> NoError]
                  /\ Len(packets[i + 1].Data) = PacketDataSize
                  /\ \A j \in 1..PacketDataSize :
                        packets[i + 1].Data[j] =
                            IF i * PacketDataSize + j <= L
                            THEN arg[i * PacketDataSize + j] ELSE 0

C2_Witness ==
    /\ op = "Serialize"
    /\ Len(packets) >= 2
    /\ Len(arg) % PacketDataSize # 0
    /\ arg[Len(arg)] # 0

\* C3: Deserialize(Serialize(payload)) has length ceil(L / PacketDataSize) *
\* PacketDataSize, starts with the payload and is zero after it; it is the
\* payload itself when L is a positive multiple of PacketDataSize.
C3_RoundTripPadded ==
    (op = "Deserialize" /\ source.from = "Serialize") =>
        LET L == Len(source.data)
        IN  /\ Len(ret) % PacketDataSize = 0
            /\ Len(ret) >= L
            /\ Len(ret) < L + PacketDataSize
            /\ \A i \in 1..Len(ret) : ret[i] = IF i <= L THEN source.data[i] ELSE 0
            /\ (L > 0 /\ L % PacketDataSize = 0) => ret = source.data

C3_Witness ==
    /\ op = "Deserialize"
    /\ source.from = "Serialize"
    /\ Len(source.data) > PacketDataSize
    /\ Len(ret) > Len(source.data)
    /\ source.data[1] # 0

\* C4: RebornPacket and ToBytes are inverses: for every packet p,
\* RebornPacket(ToBytes(p)) = p in Size, Sequence and Data, and for every
\* record b of PacketTotalSize bytes, ToBytes(RebornPacket(b)) = b.
C4_RebornToBytesInverse ==
    /\ packet # NoPacket =>
          /\ Len(ToBytes(packet)) = PacketTotalSize
          /\ RebornPacket(ToBytes(packet)) = packet
    /\ \A i \in 1..Len(packets) : RebornPacket(ToBytes(packets[i])) = packets[i]
    /\ op = "RebornPacket" => ToBytes(packet) = arg

C4_Witness ==
    /\ op = "ToBytes"
    /\ packet.Size # packet.Sequence
    /\ RebornPacket(ret) = packet

\* C5: for size and sequence in range, the packet NewPacket builds has the
\* little-endian size in bytes [0, PacketAddrSize), the little-endian sequence
\* in the next PacketAddrSize bytes and the data after them, and GetSize and
\* GetSequence return size and sequence without error.
C5_LittleEndianLayout ==
    (op = "NewPacket" /\ InRange(arg.size) /\ InRange(arg.sequence)) =>
        /\ err = NoError
        /\ packet # NoPacket
        /\ LET b == ToBytes(packet)
           IN  /\ Len(b) = PacketTotalSize
               /\ \A k \in 1..PacketAddrSize :
                     /\ b[k] = (arg.size \div Pow(ByteBase, k - 1)) % ByteBase
                     /\ b[PacketAddrSize + k] =
                            (arg.sequence \div Pow(ByteBase, k - 1)) % ByteBase
               /\ \A j \in 1..PacketDataSize : b[2 * PacketAddrSize + j] = arg.data[j]
        /\ GetSize(packet) = [val |-> arg.size, err |-> NoError]
        /\ GetSequence(packet) = [val |-> arg.sequence, err |-> NoError]

C5_Witness ==
    /\ op = "NewPacket"
    /\ arg.size = ByteBase
    /\ arg.sequence = 1
    /\ err = NoError
    /\ packet.Data # Zeros(PacketDataSize)

\* C7 as stated: every packet the layer produces (NewPacket, Serialize, Set*,
\* RebornPacket) has 0 <= GetSequence() < GetSize().
C7_SequenceBelowSize ==
    /\ packet # NoPacket =>
          (0 <= GetSequence(packet).val /\ GetSequence(packet).val < GetSize(packet).val)
    /\ op = "Serialize" =>
          \A i \in 1..Len(packets) :
              /\ 0 <= GetSequence(packets[i]).val
              /\ GetSequence(packets[i]).val < GetSize(packets[i]).val

\* C7 amended: the packets Serialize returns have 0 <= Sequence < Size; a
\* packet from NewPacket, Set* or RebornPacket has 0 <= Sequence and 0 <= Size,
\* both below the field's limit and read without error, and nothing more.
C7_SerializeKeepsSequenceBelowSize ==
    /\ op = "Serialize" =>
          \A i \in 1..Len(packets) :
              /\ 0 <= GetSequence(packets[i]).val
              /\ GetSequence(packets[i]).val < GetSize(packets[i]).val
    /\ packet # NoPacket =>
          /\ GetSequence(packet).err = NoError
          /\ GetSize(packet).err = NoError
          /\ 0 <= GetSequence(packet).val /\ GetSequence(packet).val < AddrLimit
          /\ 0 <= GetSize(packet).val /\ GetSize(packet).val < AddrLimit

C7_Witness ==
    /\ op = "Serialize"
    /\ Len(packets) >= 2
    /\ GetSequence(packets[Len(packets)]).val = Len(packets) - 1

\* C10: Deserialize of any packet sequence never fails and returns
\* len * PacketDataSize bytes whose k-th block is the k-th packet's Data,
\* whatever the Size and Sequence fields say and in the order given.
C10_DeserializeInArrayOrder ==
    op = "Deserialize" =>
        /\ err = NoError
        /\ Len(ret) = Len(arg) * PacketDataSize
        /\ \A k \in 1..Len(arg) : \A j \in 1..PacketDataSize :
              ret[(k - 1) * PacketDataSize + j] = arg[k].Data[j]

C10_Witness ==
    /\ op = "Deserialize"
    /\ source.from = "none"
    /\ Len(arg) >= 2
    /\ GetSequence(arg[1]).val > GetSequence(arg[2]).val
    /\ arg[1].Data # arg[2].Data

\* C6 as stated: for every Request and Response, with any strings and any
\* Data, ToJSON followed by RebornRequest / RebornResponse succeeds and gives
\* back a value equal in all fields.
C6_EnvelopeRoundTrip ==
    (op = "RebornRequest" \/ op = "RebornResponse") =>
        (err = NoError /\ ret = source.value)

\* C6 amended: the round trip is exact, for any Status and any Data (absent,
\* empty, binary, with the delimiter byte), when Username, DataType and Message
\* are valid UTF-8; ToJSON itself never fails.
C6_RoundTripOfValidUTF8 ==
    /\ (op = "Request.ToJSON" \/ op = "Response.ToJSON") => err = NoError
    /\ (op = "RebornRequest" /\ ValidUTF8(source.value.Username)
                             /\ ValidUTF8(source.value.DataType))
          => (err = NoError /\ ret = source.value)
    /\ (op = "RebornResponse" /\ ValidUTF8(source.value.Message))
          => (err = NoError /\ ret = source.value)

C6_Witness ==
    /\ op = "RebornRequest"
    /\ source.value.Username = <<4, 34>>
    /\ source.value.Data = Bytes(<<250, 4, 0, 34>>)
    /\ ret = source.value

\* the strings of the envelope the flow started from are valid UTF-8
FlowStringsValid ==
    IF source.from = "Request"
    THEN ValidUTF8(source.value.Username) /\ ValidUTF8(source.value.DataType)
    ELSE ValidUTF8(source.value.Message)

\* C9 as stated: ToJSON, Serialize, the records written in order, read back,
\* RebornPacket, Deserialize, RebornRequest / RebornResponse: the envelope
\* decoded at the end is the original one.
C9_FlowRecoversEnvelope ==
    op = "decoded" => (err = NoError /\ ret = source.value)

\* C9 amended: the packets arrive as sent and the buffer Deserialize returns
\* is the JSON text followed by the zero padding of the last packet.  Decoding
\* it recovers the envelope when the text's length is a multiple of
\* PacketDataSize (and its strings are valid UTF-8); with padding, Reborn*
\* fails with a syntax error and returns nothing.
C9_FlowDeliversPaddedText ==
    /\ (op = "reassembled" \/ op = "decoded") =>
          /\ received = packets
          /\ stream = <<>>
          /\ Len(arg) = PacketCount(Len(source.text)) * PacketDataSize
          /\ \A i \in 1..Len(arg) :
                arg[i] = IF i <= Len(source.text) THEN source.text[i] ELSE 0
    /\ (op = "decoded" /\ Len(source.text) % PacketDataSize = 0 /\ FlowStringsValid)
          => (err = NoError /\ ret = source.value)
    /\ (op = "decoded" /\ Len(source.text) % PacketDataSize # 0)
          => (err = ErrSyntax /\ ret = NoEnvelope)

C9_Witness ==
    /\ op = "decoded"
    /\ source.from = "Request"
    /\ source.value.Data = Bytes(<<4>>)
    /\ Len(received) > 2
    /\ err = NoError
    /\ ret = source.value

\* C8 as stated: no operation (Set* and NewPacket included) changes an input
\* or any shared state, so every call of any interleaving returns what it
\* returns when it runs alone.
C8_NothingMutatesShared ==
    /\ packet = source.packet
    /\ packets = Serialize(source.data).packets
    /\ \A t \in Threads :
          threads[t].state = "done" =>
              threads[t].result = Alone(threads[t].call, threads[t].val)

\* C8 amended: Get*, ToBytes, RebornPacket, Serialize, Deserialize and NewPacket
\* (which writes only the packet it makes) change nothing shared: while
\* no goroutine has called SetSize or SetSequence the shared packet is as it
\* was and every finished call returned what it returns alone, and the payload
\* and the packet sequence never change.  SetSize and SetSequence overwrite the
\* receiver's field in place: when one has run alone to its end, the packet
\* holds the new field.
C8_OnlySettersMutate ==
    /\ packets = Serialize(source.data).packets
    /\ (\A t \in Threads : ~IsSetter(threads[t].call)) =>
          /\ packet = source.packet
          /\ \A t \in Threads :
                threads[t].state = "done" =>
                    threads[t].result = Alone(threads[t].call, threads[t].val)
    /\ \A t \in Threads :
          (/\ threads[t].state = "done"
           /\ IsSetter(threads[t].call)
           /\ \A u \in Threads \ {t} : ~IsSetter(threads[u].call))
          => /\ threads[t].result = [err |-> NoError]
             /\ packet = IF threads[t].call = "SetSize"
                         THEN SetSize(source.packet, threads[t].val).packet
                         ELSE SetSequence(source.packet, threads[t].val).packet

C8_Witness ==
    /\ \A t \in Threads : threads[t].state = "done"
    /\ \E t \in Threads : threads[t].call = "ToBytes"
    /\ \E t \in Threads : threads[t].call = "GetSize"
    /\ packet = source.packet

====
